---- MODULE Spec2Model ----
(***************************************************************************)
(* A model of the text-to-sign-language translator: the translation cache  *)
(* (cache.py), the caching wrapper around translate, and the ISL / ASL     *)
(* processors with their placeholder renderer (app.py).                    *)
(*                                                                         *)
(* Python strings are sequences of one-character strings, over the ASCII   *)
(* characters (the texts, languages and file names are ASCII), so that     *)
(* lower(), upper(), isalnum(), split(), replace() and the concatenation   *)
(* that builds a cache key are computed character by character.           *)
(* None is the empty tuple <<>>; a present value v of an optional is <<v>>.*)
(* Time is the wall clock in whole seconds since the process started.     *)
(* translate is called by threads that share one cache directory and one   *)
(* video folder, in two ways: through the wrapper that cached_translation  *)
(* makes of it, and unwrapped by the route translate_text, as app.py does. *)
(* Of the file system the program fixes the working directory, static and  *)
(* static/videos (app.py line 24), the directories above them, and the     *)
(* content of static/videos, which starts empty and which only the         *)
(* program writes. What else the disk holds depends on the machine (and    *)
(* on whether setup.py was run): for a path that leads there,              *)
(* os.path.exists is modelled by the set of the answers it can give.       *)
(* The cache directory is reliable: no open, read or write of a cache file *)
(* fails for a reason outside the program. A cache file that another       *)
(* thread has opened for writing and not yet written is empty, and         *)
(* unpickling it fails inside get, which then returns None.                *)
(***************************************************************************)
EXTENDS Integers, Sequences, FiniteSets, Bags, TLC

VARIABLES
    now,        \* time.time(), in seconds
    ticks,      \* how many times the clock has advanced (bounded)
    store,      \* cache directory: cache key -> the unpickled cache_data
    files,      \* static/videos: path -> file content
    pc,         \* per request thread: position in wrapper / translate
    text,       \* per request thread: the text argument
    language,   \* per request thread: the language argument
    via,        \* per request thread: "wrapper" or "route", who called translate
    result,     \* per request thread: <<>> or <<the dict to return>>
    loaded,     \* per request thread: <<>> or <<cached_data get unpickled>>
    start_time, \* per request thread: start_time of process_text_to_*
    name_time,  \* per request thread: int(time.time()) of generate_*_video
    set_time,   \* per request thread: time.time() of cache_data in set
    fault,      \* per request thread: the pipeline step that raised, or "none"
    didGet,     \* per request thread: cache_instance.get was called
    didSet,     \* per request thread: cache_instance.set was called
    calls,      \* number of requests started (bounded)
    nops,       \* number of direct TranslationCache calls made (bounded)
    last,       \* the latest direct TranslationCache call and what it returned
    c_in,       \* convert_to_isl_structure: the pos_tags argument
    c_out       \* convert_to_isl_structure: <<>> or <<the returned list>>

vars == <<now, ticks, store, files, pc, text, language, via, result, loaded,
          start_time, name_time, set_time, fault, didGet, didSet, calls, nops,
          last, c_in, c_out>>

----------------------------------------------------------------------------
(* Bounds of the model.                                                    *)

MaxTicks == 1
MaxCalls == 2
MaxOps == 3
MaxLen == 3

(* cache.py line 28: the time to live of a cache entry, in seconds.        *)
TTL == 86400

----------------------------------------------------------------------------
(* Python str operations, on sequences of characters.                      *)

LowerChars == <<"a","b","c","d","e","f","g","h","i","j","k","l","m",
                "n","o","p","q","r","s","t","u","v","w","x","y","z">>
UpperChars == <<"A","B","C","D","E","F","G","H","I","J","K","L","M",
                "N","O","P","Q","R","S","T","U","V","W","X","Y","Z">>
Digits == <<"0","1","2","3","4","5","6","7","8","9">>

Range(s) == {s[i] : i \in DOMAIN s}

IndexOf(c, s) == CHOOSE i \in DOMAIN s : s[i] = c

LowerChar(c) == IF c \in Range(UpperChars) THEN LowerChars[IndexOf(c, UpperChars)] ELSE c

UpperChar(c) == IF c \in Range(LowerChars) THEN UpperChars[IndexOf(c, LowerChars)] ELSE c

\* str.lower()
lower(s) == [i \in DOMAIN s |-> LowerChar(s[i])]

\* str.upper()
upper(s) == [i \in DOMAIN s |-> UpperChar(s[i])]

IsAlnumChar(c) == c \in Range(LowerChars) \cup Range(UpperChars) \cup Range(Digits)

\* str.isalnum(): non-empty and every character alphanumeric
isalnum(s) == Len(s) > 0 /\ \A i \in DOMAIN s : IsAlnumChar(s[i])

\* str.startswith(prefix)
startswith(s, prefix) ==
    Len(s) >= Len(prefix) /\ SubSeq(s, 1, Len(prefix)) = prefix

\* the ASCII characters str.isspace() accepts, on which str.split() splits
\* and which str.strip() removes: blank, \t, \n, \r, \f, and (written as
\* themselves) the vertical tab and the separators 0x1c to 0x1f
Whitespace == {" ", "\t", "\n", "\r", "\f", "", "", "", "", ""}

RECURSIVE SplitFrom(_, _, _)
SplitFrom(s, i, word) ==
    IF i > Len(s)
    THEN IF word = <<>> THEN <<>> ELSE <<word>>
    ELSE IF s[i] \in Whitespace
         THEN (IF word = <<>> THEN <<>> ELSE <<word>>) \o SplitFrom(s, i + 1, <<>>)
         ELSE SplitFrom(s, i + 1, Append(word, s[i]))

\* str.split(): split on runs of whitespace, no empty words
split(s) == SplitFrom(s, 1, <<>>)

\* str.strip(): leading and trailing whitespace removed
strip(s) ==
    LET kept == {i \in DOMAIN s : s[i] \notin Whitespace}
    IN IF kept = {} THEN <<>>
       ELSE SubSeq(s, CHOOSE i \in kept : \A j \in kept : i <= j,
                      CHOOSE i \in kept : \A j \in kept : i >= j)

RECURSIVE SplitOn(_, _, _, _)
\* str.split(sep) from position i on: every separator ends a word, empty
\* words included
SplitOn(s, sep, i, word) ==
    IF i > Len(s) THEN <<word>>
    ELSE IF s[i] = sep THEN <<word>> \o SplitOn(s, sep, i + 1, <<>>)
    ELSE SplitOn(s, sep, i + 1, Append(word, s[i]))

RECURSIVE join(_, _)
\* sep.join(words)
join(sep, words) ==
    IF words = <<>> THEN <<>>
    ELSE IF Len(words) = 1 THEN words[1]
    ELSE words[1] \o sep \o join(sep, Tail(words))

RECURSIVE replace(_, _, _)
\* str.replace(old, new), old non-empty: every occurrence, left to right
replace(s, old, new) ==
    IF Len(s) < Len(old) THEN s
    ELSE IF SubSeq(s, 1, Len(old)) = old
         THEN new \o replace(SubSeq(s, Len(old) + 1, Len(s)), old, new)
         ELSE <<s[1]>> \o replace(Tail(s), old, new)

RECURSIVE IntToStr(_)
\* str(n) of a non-negative int
IntToStr(n) ==
    IF n < 10 THEN <<Digits[n + 1]>>
    ELSE IntToStr(n \div 10) \o <<Digits[(n % 10) + 1]>>

----------------------------------------------------------------------------
(* TranslationCache (cache.py).                                            *)

\* hashlib.md5(content).hexdigest(): the digest is modelled as an injective
\* function of the hashed content (no two contents share a digest)
md5_hexdigest(content) == <<"md5:">> \o content

\* get_cache_key: md5 of f"{text}_{language}"
get_cache_key(txt, lang) == md5_hexdigest(txt \o <<"_">> \o lang)

\* an off-by-one in the comparison: an entry exactly TTL old is still served
IsValid_inclusive(t, timestamp) == t - timestamp <= TTL

\* line 28: time.time() - cached_data['timestamp'] < 86400
IsValid(t, timestamp) == t - timestamp < TTL

\* a cache file opened with 'wb' and not yet written: zero bytes
EmptyFile == [bytes |-> 0]

\* pickle.load succeeds on the file: it holds a pickled cache_data
IsPickle(file) == "result" \in DOMAIN file

\* TranslationCache.get lines 20-26 and 30-32: the cached_data it loads from
\* the store st, or nothing when the file is missing or pickle.load raises
cache_load(st, txt, lang) ==
    LET cache_key == get_cache_key(txt, lang) IN
    IF cache_key \in DOMAIN st /\ IsPickle(st[cache_key])
    THEN <<st[cache_key]>>
    ELSE <<>>

\* TranslationCache.get lines 28-32: what it returns at time t, having loaded
cache_check(cached, t) ==
    IF cached # <<>> /\ IsValid(t, cached[1].timestamp)
    THEN <<cached[1].result>>
    ELSE <<>>

\* TranslationCache.get run without interruption at time t on the store st
cache_get(st, t, txt, lang) == cache_check(cache_load(st, txt, lang), t)

\* an eager delete: get removes the entry it finds expired
StoreAfterGet_evict(st, t, txt, lang) ==
    LET cache_key == get_cache_key(txt, lang) IN
    IF cache_key \in DOMAIN st /\ IsPickle(st[cache_key])
       /\ ~IsValid(t, st[cache_key].timestamp)
    THEN [k \in DOMAIN st \ {cache_key} |-> st[k]]
    ELSE st

\* TranslationCache.get: the store it leaves (it never writes or deletes)
StoreAfterGet(st, t, txt, lang) == st

\* TranslationCache.set line 45: open(cache_file, 'wb') creates or truncates
cache_open(st, txt, lang) ==
    LET cache_key == get_cache_key(txt, lang)
    IN [k \in DOMAIN st \cup {cache_key} |->
            IF k = cache_key THEN EmptyFile ELSE st[k]]

\* TranslationCache.set lines 39-42 and 46: pickle.dump of the cache_data
\* whose timestamp was read at time t
cache_dump(st, t, txt, lang, res) ==
    LET cache_key == get_cache_key(txt, lang)
        cache_data == [result |-> res, timestamp |-> t]
    IN [k \in DOMAIN st \cup {cache_key} |->
            IF k = cache_key THEN cache_data ELSE st[k]]

\* a key mismatch: set names the file by the text alone
cache_set_text_key(st, t, txt, lang, res) ==
    LET cache_key == md5_hexdigest(txt)
        cache_data == [result |-> res, timestamp |-> t]
    IN [k \in DOMAIN st \cup {cache_key} |->
            IF k = cache_key THEN cache_data ELSE st[k]]

\* TranslationCache.set run without interruption at time t
cache_set(st, t, txt, lang, res) ==
    cache_dump(cache_open(st, txt, lang), t, txt, lang, res)

----------------------------------------------------------------------------
(* String literals of app.py and the inputs of the model.                  *)

S_isl == <<"i","s","l">>
S_asl == <<"a","s","l">>
S_ASL == <<"A","S","L">>
S_b_isl == <<"b","_","i","s","l">>
S_b_ASL == <<"b","_","A","S","L">>
S_I_eat == <<"I","\t","e","a","t">>
S_I_eat_b == <<"I","\t","e","a","t","_","b">>
S_a == <<"a">>
S_a_b == <<"a","_","b">>
S_I_eat_rice == <<"I"," ","e","a","t"," ","r","i","c","e">>
S_i == <<"i">>
S_eat == <<"e","a","t">>
S_he == <<"h","e">>
S_Tea == <<"T","e","a">>
S_PRP == <<"P","R","P">>
S_PRPS == <<"P","R","P","$">>
S_NN == <<"N","N">>
S_NNS == <<"N","N","S">>
S_VB == <<"V","B">>
S_VBP == <<"V","B","P">>
S_DT == <<"D","T">>
S_N == <<"N">>
S_mp4 == <<".","m","p","4">>
S_txt == <<".","t","x","t">>
S_isl_ == <<"i","s","l","_">>
S_asl_ == <<"a","s","l","_">>
S_arrow == <<" ","-",">"," ">>
S_ISL_Signs == <<"I","S","L"," ","S","i","g","n","s",":"," ">>
S_ASL_Signs == <<"A","S","L"," ","S","i","g","n","s",":"," ">>

\* app.config['UPLOAD_FOLDER'] = 'static/videos'
UPLOAD_FOLDER == <<"s","t","a","t","i","c","/","v","i","d","e","o","s">>

\* os.path.join(folder, filename): an absolute filename replaces the folder
path_join(folder, filename) ==
    IF filename # <<>> /\ filename[1] = "/" THEN filename
    ELSE IF folder = <<>> \/ folder[Len(folder)] = "/" THEN folder \o filename
    ELSE folder \o <<"/">> \o filename

\* the directories the program fixes, as lists of names from the working
\* directory on: it, static, static/videos
\* (os.makedirs(app.config['UPLOAD_FOLDER'], exist_ok=True))
Dirs ==
    LET names == SplitOn(UPLOAD_FOLDER, "/", 1, <<>>)
    IN {SubSeq(names, 1, n) : n \in 0..Len(names)}

\* the video folder, as a list of names
VideoDir == SplitOn(UPLOAD_FOLDER, "/", 1, <<>>)

\* Where the resolution of a path can be, <<kind, loc, deep>>:
\*   "dir"   the directory loc of Dirs;
\*   "file"  the file loc of the video folder;
\*   "above" a directory above the working directory;
\*   "under" something the machine holds, deep names below the directory
\*           loc of Dirs, which may be a file or a directory;
\*   "off"   something the machine holds below a directory above the
\*           working directory, deep names away from the path to it.
\* The places one component leads to from the place cur
StepNext(fs, cur, c) ==
    LET kind == cur[1]
        loc == cur[2]
        deep == cur[3]
    IN IF kind = "file" THEN {}
       ELSE IF c \in {<<>>, <<".">>} THEN {cur}
       ELSE IF c = <<".", ".">>
       THEN IF kind = "dir"
            THEN IF loc = <<>> THEN {<<"above", <<>>, 0>>}
                 ELSE {<<"dir", SubSeq(loc, 1, Len(loc) - 1), 0>>}
            ELSE IF kind = "above" THEN {cur}
            ELSE IF deep > 1 THEN {<<kind, loc, deep - 1>>}
            ELSE IF kind = "under" THEN {<<"dir", loc, 0>>}
            ELSE {<<"above", <<>>, 0>>}
       ELSE IF kind = "dir"
       THEN IF Append(loc, c) \in Dirs THEN {<<"dir", Append(loc, c), 0>>}
            ELSE IF loc = VideoDir
            THEN IF join(<<"/">>, Append(loc, c)) \in DOMAIN fs
                 THEN {<<"file", Append(loc, c), 0>>}
                 ELSE {}
            ELSE {<<"under", loc, 1>>}
       ELSE IF kind = "above"
       THEN {<<"above", <<>>, 0>>, <<"dir", <<>>, 0>>, <<"off", <<>>, 1>>}
       ELSE {<<kind, loc, deep + 1>>}

\* one component can fail to resolve from the place cur: cur is a file, or
\* may be one; or the component names what is not there, or may not be
StepFails(fs, cur, c) ==
    \/ cur[1] \in {"file", "under", "off"}
    \/ /\ c \notin {<<>>, <<".">>, <<".", ".">>}
       /\ \/ cur[1] = "above"
          \/ cur[1] = "dir" /\ Append(cur[2], c) \notin Dirs
                /\ (cur[2] = VideoDir =>
                       join(<<"/">>, Append(cur[2], c)) \notin DOMAIN fs)

RECURSIVE Walk(_, _, _, _)
\* the answers os.path.exists can give when the components of a path from
\* the i-th on are resolved from one of the places curs
Walk(fs, comps, i, curs) ==
    IF i > Len(comps) THEN (IF curs = {} THEN {} ELSE {TRUE})
    ELSE (IF \E cur \in curs : StepFails(fs, cur, comps[i]) THEN {FALSE} ELSE {})
         \cup Walk(fs, comps, i + 1,
                   UNION {StepNext(fs, cur, comps[i]) : cur \in curs})

\* os.path.exists(path), with the files fs in the video folder: the set of
\* the answers it can give, {TRUE} or {FALSE} where the program fixes the
\* answer and BOOLEAN where the machine does
path_exists(fs, path) ==
    IF path = <<>> THEN {FALSE}
    ELSE Walk(fs, SplitOn(path, "/", 1, <<>>), 1,
              IF path[1] = "/" THEN {<<"above", <<>>, 0>>}
              ELSE {<<"dir", <<>>, 0>>})

\* open(path, 'w'): the file is created, or emptied if it was there
open_w(fs, path) ==
    [f \in DOMAIN fs \cup {path} |-> IF f = path THEN <<>> ELSE fs[f]]

\* f.write(data) flushed when the with-block closes f: data is written
\* from the start of the file over what the file holds by then
write_close(fs, path, data) ==
    [f \in DOMAIN fs \cup {path} |->
        IF f # path THEN fs[f]
        ELSE IF path \in DOMAIN fs
             THEN data \o SubSeq(fs[path], Len(data) + 1, Len(fs[path]))
             ELSE data]

\* The request threads, and the arguments requests are made with.
Procs == {"t1", "t2"}
Requests == {<<S_I_eat_rice, S_isl>>, <<S_I_eat_b, S_ASL>>, <<S_I_eat, S_b_ASL>>}

\* The JSON bodies the route /translate is requested with: none, one
\* without text, one with a blank text, one without language, two with a
\* supported and one with an unsupported language
S_blank == <<" ", "\t">>
S_padded == <<" ">> \o S_I_eat_b \o <<"\n">>
Bodies ==
    {<<>>,
     [language |-> S_isl],
     [text |-> S_blank],
     [text |-> S_I_eat_rice],
     [text |-> S_padded, language |-> S_ASL],
     [text |-> S_he, language |-> S_asl],
     [text |-> S_I_eat, language |-> S_b_ASL]}

\* The arguments of the direct TranslationCache calls.
CacheTexts == {S_a, S_a_b}
CacheLanguages == {S_isl, S_b_isl}

\* The tagged tokens convert_to_isl_structure is applied to.
TagTokens == {S_he, S_Tea}
Tags == {S_PRP, S_PRPS, S_NNS, S_VBP, S_DT, S_N}
TaggedSeqs == UNION {[1..n -> TagTokens \X Tags] : n \in 0..MaxLen}

----------------------------------------------------------------------------
(* ISLProcessor (app.py).                                                  *)

\* nltk.word_tokenize on text of letters, "_" and whitespace: the words
\* between whitespace (the tokenizer is an external library; it splits no
\* such word)
word_tokenize(txt) == split(txt)

\* tokenize_text: word_tokenize(text.lower()), keeping the isalnum() tokens
tokenize_text(txt) ==
    LET IsAlnumToken(token) == isalnum(token)
    IN SelectSeq(word_tokenize(lower(txt)), IsAlnumToken)

\* nltk.pos_tag of one token: a fixed tagger (the tagger is an external
\* library; it is a function of the tokens)
TagOf(token) ==
    IF token = S_i THEN S_PRP
    ELSE IF token = S_eat THEN S_VBP
    ELSE IF token = S_a THEN S_DT
    ELSE S_NN

\* pos_tag: the list of (token, tag) pairs
pos_tag(tokens) == [i \in DOMAIN tokens |-> <<tokens[i], TagOf(tokens[i])>>]

RECURSIVE ConvertLoop(_, _, _, _, _, _)
\* the for loop of convert_to_isl_structure from index i, then line 134
ConvertLoop(pos_tags, i, subjects, objects, verbs, others) ==
    IF i > Len(pos_tags)
    THEN subjects \o objects \o verbs \o others
    ELSE LET token == pos_tags[i][1]
             pos == pos_tags[i][2]
         IN IF startswith(pos, S_PRP)
            THEN ConvertLoop(pos_tags, i + 1, Append(subjects, upper(token)), objects, verbs, others)
            ELSE IF startswith(pos, S_NN)
            THEN ConvertLoop(pos_tags, i + 1, subjects, Append(objects, upper(token)), verbs, others)
            ELSE IF startswith(pos, S_VB)
            THEN ConvertLoop(pos_tags, i + 1, subjects, objects, Append(verbs, upper(token)), others)
            ELSE ConvertLoop(pos_tags, i + 1, subjects, objects, verbs, Append(others, upper(token)))

\* a slip in the concatenation order: verbs before objects (English SVO)
convert_swapped(tokens, pos_tags) ==
    LET Is(p, pre) == startswith(p[2], pre)
        IsS(p) == Is(p, S_PRP)
        IsO(p) == Is(p, S_NN)
        IsV(p) == Is(p, S_VB)
        IsX(p) == ~IsS(p) /\ ~IsO(p) /\ ~IsV(p)
        Up(s) == [i \in DOMAIN s |-> upper(s[i][1])]
    IN Up(SelectSeq(pos_tags, IsS)) \o Up(SelectSeq(pos_tags, IsV))
       \o Up(SelectSeq(pos_tags, IsO)) \o Up(SelectSeq(pos_tags, IsX))

\* convert_to_isl_structure(tokens, pos_tags)
convert_to_isl_structure(tokens, pos_tags) ==
    ConvertLoop(pos_tags, 1, <<>>, <<>>, <<>>, <<>>)

\* generate_isl_video at time t: the file name it returns
isl_video_filename(t) == S_isl_ \o IntToStr(t) \o S_mp4

\* create_placeholder_video: the path it opens for writing
placeholder_path(video_path) == replace(video_path, S_mp4, S_txt)

\* create_placeholder_video: what it writes
isl_placeholder_content(tokens) == S_ISL_Signs \o join(S_arrow, tokens)

\* process_text_to_isl with its three clock readings: start (line 80),
\* named (line 141, in generate_isl_video) and finish (line 94)
process_text_to_isl(txt, start, named, finish) ==
    LET tokens == tokenize_text(txt)
        pos_tags == pos_tag(tokens)
        isl_tokens == convert_to_isl_structure(tokens, pos_tags)
    IN [video_path |-> isl_video_filename(named),
        isl_gloss |-> join(<<" ">>, isl_tokens),
        processing_time |-> finish - start]

\* ISLProcessor.translate, when process_text_to_isl returns
isl_translate_ok(txt, start, named, finish) ==
    LET r == process_text_to_isl(txt, start, named, finish)
    IN [success |-> TRUE, video_path |-> r.video_path,
        isl_gloss |-> r.isl_gloss, processing_time |-> r.processing_time]

\* the path create_placeholder_video opens, for the name made at time t
isl_placeholder_path(t) ==
    placeholder_path(path_join(UPLOAD_FOLDER, isl_video_filename(t)))

\* static/videos after create_placeholder_video opened its file (line 153)
isl_files_after_open(fs, t) == open_w(fs, isl_placeholder_path(t))

\* static/videos after create_placeholder_video wrote isl_tokens and closed
isl_files_after_close(fs, isl_tokens, t) ==
    write_close(fs, isl_placeholder_path(t), isl_placeholder_content(isl_tokens))

----------------------------------------------------------------------------
(* ASLProcessor (app.py).                                                  *)

\* lines 187-188: text.lower().split(), isalnum() tokens upper-cased
asl_tokens_of(txt) ==
    LET IsAlnumToken(token) == isalnum(token)
        kept == SelectSeq(split(lower(txt)), IsAlnumToken)
    IN [i \in DOMAIN kept |-> upper(kept[i])]

\* generate_asl_video at time t: the file name it returns
asl_video_filename(t) == S_asl_ \o IntToStr(t) \o S_mp4

\* process_text_to_asl with its three clock readings: start (line 184),
\* named (line 203, in generate_asl_video) and finish (line 193)
process_text_to_asl(txt, start, named, finish) ==
    [video_path |-> asl_video_filename(named),
     asl_gloss |-> join(<<" ">>, asl_tokens_of(txt)),
     processing_time |-> finish - start]

\* a slip in the result dict: the gloss field filled from video_path
asl_translate_ok_swapped(txt, start, named, finish) ==
    LET r == process_text_to_asl(txt, start, named, finish)
    IN [success |-> TRUE, video_path |-> r.video_path,
        asl_gloss |-> r.video_path, processing_time |-> r.processing_time]

\* ASLProcessor.translate, when process_text_to_asl returns
asl_translate_ok(txt, start, named, finish) ==
    LET r == process_text_to_asl(txt, start, named, finish)
    IN [success |-> TRUE, video_path |-> r.video_path,
        asl_gloss |-> r.asl_gloss, processing_time |-> r.processing_time]

\* the path generate_asl_video opens (line 207), for the name made at time t
asl_placeholder_path(t) ==
    replace(path_join(UPLOAD_FOLDER, asl_video_filename(t)), S_mp4, S_txt)

\* static/videos after generate_asl_video opened its file (line 207)
asl_files_after_open(fs, t) == open_w(fs, asl_placeholder_path(t))

\* static/videos after generate_asl_video wrote asl_tokens and closed
asl_files_after_close(fs, asl_tokens, t) ==
    write_close(fs, asl_placeholder_path(t), S_ASL_Signs \o join(S_arrow, asl_tokens))

\* the except branch of either translate: str(e) of the step that raised
translate_failed(step) == [success |-> FALSE, error |-> step]

\* serve_video(filename): the answers that
\* os.path.exists(os.path.join(UPLOAD_FOLDER, filename)) can give, TRUE
\* leading to send_file and FALSE to the 404
serve_video_found(fs, filename) == path_exists(fs, path_join(UPLOAD_FOLDER, filename))

----------------------------------------------------------------------------
(* The caching wrapper (cached_translation) around translate, called by    *)
(* the request threads; the clock. A thread takes a step of its own at     *)
(* each reading of the clock and each access to a file another thread can  *)
(* access; what it computes in between belongs to the step before.         *)

NoStore == [k \in {} |-> <<>>]
NoLast == [op |-> "none", text |-> <<>>, language |-> <<>>, arg |-> <<>>,
           ret |-> <<>>, at |-> 0, prev |-> <<>>]

clockVars == <<now, ticks>>
directVars == <<nops, last, c_in, c_out>>

Init ==
    /\ now = 0
    /\ ticks = 0
    /\ store = NoStore
    /\ files = NoStore
    /\ pc = [p \in Procs |-> "idle"]
    /\ text = [p \in Procs |-> <<>>]
    /\ language = [p \in Procs |-> <<>>]
    /\ via = [p \in Procs |-> "none"]
    /\ result = [p \in Procs |-> <<>>]
    /\ loaded = [p \in Procs |-> <<>>]
    /\ start_time = [p \in Procs |-> 0]
    /\ name_time = [p \in Procs |-> 0]
    /\ set_time = [p \in Procs |-> 0]
    /\ fault = [p \in Procs |-> "none"]
    /\ didGet = [p \in Procs |-> FALSE]
    /\ didSet = [p \in Procs |-> FALSE]
    /\ calls = 0
    /\ nops = 0
    /\ last = NoLast
    /\ c_in = <<>>
    /\ c_out = <<>>

\* time passes while requests are handled: by a second, or by the time to
\* live of a cache entry
Tick ==
    /\ ticks < MaxTicks
    /\ \E d \in {1, TTL} : now' = now + d
    /\ ticks' = ticks + 1
    /\ UNCHANGED <<store, files, pc, text, language, via, result, loaded,
                   start_time, name_time, set_time, fault, didGet, didSet,
                   calls, directVars>>

\* a thread calls the wrapped translate(text, language); the threads are
\* interchangeable, so of two idle threads t1 takes the call
Request(p) ==
    /\ pc[p] = "idle"
    /\ p = "t1" \/ pc["t1"] # "idle"
    /\ calls < MaxCalls
    /\ \E req \in Requests :
          /\ text' = [text EXCEPT ![p] = req[1]]
          /\ language' = [language EXCEPT ![p] = req[2]]
    /\ via' = [via EXCEPT ![p] = "wrapper"]
    /\ pc' = [pc EXCEPT ![p] = "load"]
    /\ calls' = calls + 1
    /\ UNCHANGED <<clockVars, store, files, result, loaded, start_time,
                   name_time, set_time, fault, didGet, didSet, directVars>>

\* Python truth value of what get returned: None and {} are false
Truthy(cached) == cached # <<>> /\ DOMAIN cached[1] # {}

\* a missing lower(): the language is compared as given
translate_branch_case_sensitive(lang) ==
    IF lang = S_isl THEN "isl"
    ELSE IF lang = S_asl THEN "asl"
    ELSE "raised"

\* SignLanguageTranslator.translate: which branch language takes
translate_branch(lang) ==
    IF lower(lang) = S_isl THEN "isl"
    ELSE IF lower(lang) = S_asl THEN "asl"
    ELSE "raised"

\* str(e) of the ValueError translate raises
UnsupportedLanguage == "Unsupported language. Use 'isl' or 'asl'"

\* translate_text lines 223-232: the body is refused, or gives the text
\* (stripped) and the language (lower-cased, 'isl' if there is none)
\* translate is called with
translate_text_args(data) ==
    IF data = <<>> \/ "text" \notin DOMAIN data
    THEN [refused |-> TRUE, error |-> "No text provided"]
    ELSE IF strip(data.text) = <<>>
    THEN [refused |-> TRUE, error |-> "Empty text provided"]
    ELSE [refused |-> FALSE, text |-> strip(data.text),
          language |-> lower(IF "language" \in DOMAIN data
                             THEN data.language ELSE S_isl)]

\* translate_text: the status and body it answers with, when the body was
\* refused, translate raised, or translate returned res
translate_text_response(at, res) ==
    IF at = "refused" THEN [status |-> 400, body |-> res[1]]
    ELSE IF at = "raised"
    THEN [status |-> 500, body |-> [error |-> UnsupportedLanguage]]
    ELSE [status |-> 200, body |-> res[1]]

\* the route /translate is requested with a JSON body: translate_text
\* refuses it, or calls translate, unwrapped, which enters the processor
\* of the language or raises ValueError (caught at line 237)
TranslateText(p) ==
    /\ pc[p] = "idle"
    /\ p = "t1" \/ pc["t1"] # "idle"
    /\ calls < MaxCalls
    /\ \E data \in Bodies :
          LET args == translate_text_args(data)
          IN IF args.refused
             THEN /\ result' = [result EXCEPT ![p] = <<[error |-> args.error]>>]
                  /\ pc' = [pc EXCEPT ![p] = "refused"]
                  /\ UNCHANGED <<text, language>>
             ELSE /\ text' = [text EXCEPT ![p] = args.text]
                  /\ language' = [language EXCEPT ![p] = args.language]
                  /\ pc' = [pc EXCEPT ![p] = translate_branch(args.language)]
                  /\ result' = result
    /\ via' = [via EXCEPT ![p] = "route"]
    /\ calls' = calls + 1
    /\ UNCHANGED <<clockVars, store, files, loaded, start_time, name_time,
                   set_time, fault, didGet, didSet, directVars>>

\* wrapper line 56 into get lines 20-26: the cache file is read. With no
\* file, or one that does not unpickle, get returns None and the wrapper
\* calls translate (line 61), which enters the processor of the language
\* or raises ValueError, which the wrapper lets through
GetLoad(p) ==
    /\ pc[p] = "load"
    /\ didGet' = [didGet EXCEPT ![p] = TRUE]
    /\ LET cached_data == cache_load(store, text[p], language[p])
       IN /\ loaded' = [loaded EXCEPT ![p] = cached_data]
          /\ pc' = [pc EXCEPT ![p] = IF cached_data = <<>>
                                     THEN translate_branch(language[p])
                                     ELSE "check"]
    /\ UNCHANGED <<clockVars, store, files, text, language, via, result,
                   start_time, name_time, set_time, fault, didSet, calls,
                   directVars>>

\* get line 28 to wrapper line 61: the clock is read and the loaded entry
\* returned if it is still valid (the wrapper returns it, line 58);
\* otherwise get returns None and the wrapper calls translate
GetCheck(p) ==
    /\ pc[p] = "check"
    /\ store' = StoreAfterGet(store, now, text[p], language[p])
    /\ LET cached_result == cache_check(loaded[p], now)
       IN IF Truthy(cached_result)
          THEN /\ result' = [result EXCEPT ![p] = cached_result]
               /\ loaded' = [loaded EXCEPT ![p] = <<>>]
               /\ pc' = [pc EXCEPT ![p] = "done"]
          ELSE /\ result' = result
               /\ loaded' = loaded
               /\ pc' = [pc EXCEPT ![p] = translate_branch(language[p])]
    /\ UNCHANGED <<clockVars, files, text, language, via, start_time, name_time,
                   set_time, fault, didGet, didSet, calls, directVars>>

\* the steps of the pipelines that can raise: the tagger (its model is
\* missing) and the renderer (the placeholder file cannot be opened)
TaggerFaults == {"tagger"}
RendererFaults == {"renderer"}

isl_tokens_of(txt) ==
    convert_to_isl_structure(tokenize_text(txt), pos_tag(tokenize_text(txt)))

\* where translate returns to in thread p: the wrapper (line 61) or
\* translate_text (line 235)
AfterTranslate(p) == IF via[p] = "wrapper" THEN "cache" ELSE "done"

\* the except branch of translate is taken in thread p for the step f
Failed(p, f) ==
    /\ fault' = [fault EXCEPT ![p] = f]
    /\ result' = [result EXCEPT ![p] = <<translate_failed(f)>>]
    /\ start_time' = [start_time EXCEPT ![p] = 0]
    /\ name_time' = [name_time EXCEPT ![p] = 0]
    /\ files' = files
    /\ pc' = [pc EXCEPT ![p] = AfterTranslate(p)]

\* process_text_to_isl lines 80-89: start_time is read, the text tokenized,
\* tagged and reordered; or ISLProcessor.translate catches what they raise
IslStart(p) ==
    /\ pc[p] = "isl"
    /\ \E f \in TaggerFaults \cup {"none"} :
          IF f = "none"
          THEN /\ start_time' = [start_time EXCEPT ![p] = now]
               /\ pc' = [pc EXCEPT ![p] = "isl_name"]
               /\ UNCHANGED <<fault, result, name_time, files>>
          ELSE Failed(p, f)
    /\ loaded' = [loaded EXCEPT ![p] = <<>>]
    /\ UNCHANGED <<clockVars, store, text, language, via, set_time, didGet,
                   didSet, calls, directVars>>

\* generate_isl_video lines 141-142: the clock is read for the file name
IslName(p) ==
    /\ pc[p] = "isl_name"
    /\ name_time' = [name_time EXCEPT ![p] = now]
    /\ pc' = [pc EXCEPT ![p] = "isl_open"]
    /\ UNCHANGED <<clockVars, store, files, text, language, via, result,
                   loaded, start_time, set_time, fault, didGet, didSet,
                   calls, directVars>>

\* create_placeholder_video line 153: the placeholder, under the name made
\* in the step before, is opened for writing, which leaves it empty; or
\* ISLProcessor.translate catches what open raises
IslOpen(p) ==
    /\ pc[p] = "isl_open"
    /\ \E f \in RendererFaults \cup {"none"} :
          IF f = "none"
          THEN /\ files' = isl_files_after_open(files, name_time[p])
               /\ pc' = [pc EXCEPT ![p] = "isl_close"]
               /\ UNCHANGED <<fault, result, start_time, name_time>>
          ELSE Failed(p, f)
    /\ UNCHANGED <<clockVars, store, text, language, via, loaded, set_time,
                   didGet, didSet, calls, directVars>>

\* create_placeholder_video line 154 and the end of its with-block: the
\* text is written and the file closed
IslClose(p) ==
    /\ pc[p] = "isl_close"
    /\ files' = isl_files_after_close(files, isl_tokens_of(text[p]), name_time[p])
    /\ pc' = [pc EXCEPT ![p] = "isl_finish"]
    /\ UNCHANGED <<clockVars, store, text, language, via, result, loaded,
                   start_time, name_time, set_time, fault, didGet, didSet,
                   calls, directVars>>

\* process_text_to_isl lines 94-100 and translate lines 66-71: the clock is
\* read for processing_time and the result dict returned to the wrapper
IslFinish(p) ==
    /\ pc[p] = "isl_finish"
    /\ result' = [result EXCEPT ![p] =
                     <<isl_translate_ok(text[p], start_time[p], name_time[p], now)>>]
    /\ start_time' = [start_time EXCEPT ![p] = 0]
    /\ name_time' = [name_time EXCEPT ![p] = 0]
    /\ pc' = [pc EXCEPT ![p] = AfterTranslate(p)]
    /\ UNCHANGED <<clockVars, store, files, text, language, via, loaded, set_time,
                   fault, didGet, didSet, calls, directVars>>

\* process_text_to_asl lines 184-188: start_time is read, the text split
AslStart(p) ==
    /\ pc[p] = "asl"
    /\ start_time' = [start_time EXCEPT ![p] = now]
    /\ loaded' = [loaded EXCEPT ![p] = <<>>]
    /\ pc' = [pc EXCEPT ![p] = "asl_name"]
    /\ UNCHANGED <<clockVars, store, files, text, language, via, result,
                   name_time, set_time, fault, didGet, didSet, calls,
                   directVars>>

\* generate_asl_video lines 203-204: the clock is read for the file name
AslName(p) ==
    /\ pc[p] = "asl_name"
    /\ name_time' = [name_time EXCEPT ![p] = now]
    /\ pc' = [pc EXCEPT ![p] = "asl_open"]
    /\ UNCHANGED <<clockVars, store, files, text, language, via, result,
                   loaded, start_time, set_time, fault, didGet, didSet,
                   calls, directVars>>

\* generate_asl_video line 207: the placeholder, under the name made in
\* the step before, is opened for writing, which leaves it empty; or
\* ASLProcessor.translate catches what open raises
AslOpen(p) ==
    /\ pc[p] = "asl_open"
    /\ \E f \in RendererFaults \cup {"none"} :
          IF f = "none"
          THEN /\ files' = asl_files_after_open(files, name_time[p])
               /\ pc' = [pc EXCEPT ![p] = "asl_close"]
               /\ UNCHANGED <<fault, result, start_time, name_time>>
          ELSE Failed(p, f)
    /\ UNCHANGED <<clockVars, store, text, language, via, loaded, set_time,
                   didGet, didSet, calls, directVars>>

\* generate_asl_video line 208 and the end of its with-block: the text is
\* written and the file closed
AslClose(p) ==
    /\ pc[p] = "asl_close"
    /\ files' = asl_files_after_close(files, asl_tokens_of(text[p]), name_time[p])
    /\ pc' = [pc EXCEPT ![p] = "asl_finish"]
    /\ UNCHANGED <<clockVars, store, text, language, via, result, loaded,
                   start_time, name_time, set_time, fault, didGet, didSet,
                   calls, directVars>>

\* process_text_to_asl lines 193-199 and translate lines 170-175: the clock
\* is read for processing_time and the result dict returned to the wrapper
AslFinish(p) ==
    /\ pc[p] = "asl_finish"
    /\ result' = [result EXCEPT ![p] =
                     <<asl_translate_ok(text[p], start_time[p], name_time[p], now)>>]
    /\ start_time' = [start_time EXCEPT ![p] = 0]
    /\ name_time' = [name_time EXCEPT ![p] = 0]
    /\ pc' = [pc EXCEPT ![p] = AfterTranslate(p)]
    /\ UNCHANGED <<clockVars, store, files, text, language, via, loaded, set_time,
                   fault, didGet, didSet, calls, directVars>>

\* a missing success check: every result is cached
should_cache_always(res) == TRUE

\* wrapper line 64: result.get('success')
should_cache(res) == res.success

\* wrapper lines 64-65 into set lines 36-42: for a successful result set
\* is called and reads the clock for the timestamp of cache_data; any
\* other result is returned as it is
SetStamp(p) ==
    /\ pc[p] = "cache"
    /\ IF should_cache(result[p][1])
       THEN /\ set_time' = [set_time EXCEPT ![p] = now]
            /\ didSet' = [didSet EXCEPT ![p] = TRUE]
            /\ pc' = [pc EXCEPT ![p] = "open"]
       ELSE /\ set_time' = set_time
            /\ didSet' = didSet
            /\ pc' = [pc EXCEPT ![p] = "done"]
    /\ UNCHANGED <<clockVars, store, files, text, language, via, result, loaded,
                   start_time, name_time, fault, didGet, calls, directVars>>

\* set line 45: open(cache_file, 'wb') leaves the file empty
SetOpen(p) ==
    /\ pc[p] = "open"
    /\ store' = cache_open(store, text[p], language[p])
    /\ pc' = [pc EXCEPT ![p] = "dump"]
    /\ UNCHANGED <<clockVars, files, text, language, via, result, loaded,
                   start_time, name_time, set_time, fault, didGet, didSet,
                   calls, directVars>>

\* set line 46, wrapper line 67: pickle.dump writes the entry
SetDump(p) ==
    /\ pc[p] = "dump"
    /\ store' = cache_dump(store, set_time[p], text[p], language[p], result[p][1])
    /\ set_time' = [set_time EXCEPT ![p] = 0]
    /\ pc' = [pc EXCEPT ![p] = "done"]
    /\ UNCHANGED <<clockVars, files, text, language, via, result, loaded,
                   start_time, name_time, fault, didGet, didSet, calls,
                   directVars>>

\* the call is over: the caller of the wrapper has the result or the
\* ValueError, or translate_text has answered (lines 226, 232, 236, 238)
Return(p) ==
    /\ pc[p] \in {"done", "raised", "refused"}
    /\ pc' = [pc EXCEPT ![p] = "idle"]
    /\ text' = [text EXCEPT ![p] = <<>>]
    /\ language' = [language EXCEPT ![p] = <<>>]
    /\ via' = [via EXCEPT ![p] = "none"]
    /\ result' = [result EXCEPT ![p] = <<>>]
    /\ loaded' = [loaded EXCEPT ![p] = <<>>]
    /\ fault' = [fault EXCEPT ![p] = "none"]
    /\ didGet' = [didGet EXCEPT ![p] = FALSE]
    /\ didSet' = [didSet EXCEPT ![p] = FALSE]
    /\ UNCHANGED <<clockVars, store, files, start_time, name_time, set_time,
                   calls, directVars>>

Next ==
    \/ Tick
    \/ \E p \in Procs : Request(p)
    \/ \E p \in Procs : GetLoad(p)
    \/ \E p \in Procs : GetCheck(p)
    \/ \E p \in Procs : IslStart(p)
    \/ \E p \in Procs : IslName(p)
    \/ \E p \in Procs : IslOpen(p)
    \/ \E p \in Procs : IslClose(p)
    \/ \E p \in Procs : IslFinish(p)
    \/ \E p \in Procs : AslStart(p)
    \/ \E p \in Procs : AslName(p)
    \/ \E p \in Procs : AslOpen(p)
    \/ \E p \in Procs : AslClose(p)
    \/ \E p \in Procs : AslFinish(p)
    \/ \E p \in Procs : SetStamp(p)
    \/ \E p \in Procs : SetOpen(p)
    \/ \E p \in Procs : SetDump(p)
    \/ \E p \in Procs : Return(p)

Spec == Init /\ [][Next]_vars

----------------------------------------------------------------------------
(* The program as app.py runs it: the route /translate calls translate,    *)
(* which no wrapper caches.                                                *)

NextApp ==
    \/ Tick
    \/ \E p \in Procs : TranslateText(p)
    \/ \E p \in Procs : IslStart(p)
    \/ \E p \in Procs : IslName(p)
    \/ \E p \in Procs : IslOpen(p)
    \/ \E p \in Procs : IslClose(p)
    \/ \E p \in Procs : IslFinish(p)
    \/ \E p \in Procs : AslStart(p)
    \/ \E p \in Procs : AslName(p)
    \/ \E p \in Procs : AslOpen(p)
    \/ \E p \in Procs : AslClose(p)
    \/ \E p \in Procs : AslFinish(p)
    \/ \E p \in Procs : Return(p)

SpecApp == Init /\ [][NextApp]_vars

----------------------------------------------------------------------------
(* TranslationCache called directly, with any text, language and result.   *)

\* results passed to set: a successful and a failed translation
SampleResults ==
    <<[success |-> TRUE, video_path |-> isl_video_filename(0),
       isl_gloss |-> <<"A">>, processing_time |-> 0],
      [success |-> FALSE, error |-> "tagger"]>>

\* cache.set(txt, lang, SampleResults[i])
DirectSet(txt, lang, i) ==
    /\ nops < MaxOps
    /\ store' = cache_set(store, now, txt, lang, SampleResults[i])
    /\ last' = [op |-> "set", text |-> txt, language |-> lang,
                arg |-> <<SampleResults[i]>>, ret |-> <<>>, at |-> now,
                prev |-> <<>>]
    /\ nops' = nops + 1
    /\ UNCHANGED <<now, ticks, files, pc, text, language, via, result, loaded,
                   start_time, name_time, set_time, fault, didGet, didSet,
                   calls, c_in, c_out>>

\* cache.get(txt, lang); prev remembers a set of the same text and language
\* that was the call just before
DirectGet(txt, lang) ==
    /\ nops < MaxOps
    /\ store' = StoreAfterGet(store, now, txt, lang)
    /\ last' = [op |-> "get", text |-> txt, language |-> lang,
                arg |-> <<>>, ret |-> cache_get(store, now, txt, lang), at |-> now,
                prev |-> IF last.op = "set" /\ last.text = txt /\ last.language = lang
                         THEN <<[result |-> last.arg[1], at |-> last.at]>>
                         ELSE <<>>]
    /\ nops' = nops + 1
    /\ UNCHANGED <<now, ticks, files, pc, text, language, via, result, loaded,
                   start_time, name_time, set_time, fault, didGet, didSet,
                   calls, c_in, c_out>>

\* time passes between two calls of the cache: by the time to live of an
\* entry, or by a second less
Elapse ==
    /\ ticks < MaxTicks
    /\ \E d \in {TTL - 1, TTL} : now' = now + d
    /\ ticks' = ticks + 1
    /\ UNCHANGED <<store, files, pc, text, language, via, result, loaded,
                   start_time, name_time, set_time, fault, didGet, didSet,
                   calls, directVars>>

NextCache ==
    \/ Elapse
    \/ \E txt \in CacheTexts, lang \in CacheLanguages, i \in DOMAIN SampleResults :
          DirectSet(txt, lang, i)
    \/ \E txt \in CacheTexts, lang \in CacheLanguages : DirectGet(txt, lang)

SpecCache == Init /\ [][NextCache]_vars

----------------------------------------------------------------------------
(* convert_to_isl_structure applied to any short list of tagged tokens.    *)

InitCompose ==
    /\ now = 0
    /\ ticks = 0
    /\ store = NoStore
    /\ files = NoStore
    /\ pc = [p \in Procs |-> "idle"]
    /\ text = [p \in Procs |-> <<>>]
    /\ language = [p \in Procs |-> <<>>]
    /\ via = [p \in Procs |-> "none"]
    /\ result = [p \in Procs |-> <<>>]
    /\ loaded = [p \in Procs |-> <<>>]
    /\ start_time = [p \in Procs |-> 0]
    /\ name_time = [p \in Procs |-> 0]
    /\ set_time = [p \in Procs |-> 0]
    /\ fault = [p \in Procs |-> "none"]
    /\ didGet = [p \in Procs |-> FALSE]
    /\ didSet = [p \in Procs |-> FALSE]
    /\ calls = 0
    /\ nops = 0
    /\ last = NoLast
    /\ c_in \in TaggedSeqs
    /\ c_out = <<>>

\* isl_tokens = self.convert_to_isl_structure(tokens, pos_tags)
Compose ==
    /\ c_out = <<>>
    /\ c_out' = <<convert_to_isl_structure([i \in DOMAIN c_in |-> c_in[i][1]], c_in)>>
    /\ UNCHANGED <<now, ticks, store, files, pc, text, language, via, result,
                   loaded, start_time, name_time, set_time, fault, didGet,
                   didSet, calls, nops, last, c_in>>

NextCompose == Compose

SpecCompose == InitCompose /\ [][NextCompose]_vars

----------------------------------------------------------------------------
(* The claims.                                                             *)

\* the cache key of the request thread p is handling
KeyOf(p) == get_cache_key(text[p], language[p])

\* thread p called through the wrapper, missed the cache, and translate
\* has returned to the wrapper
Computed(p) ==
    /\ via[p] = "wrapper"
    /\ \/ pc[p] \in {"cache", "open", "dump"}
       \/ pc[p] = "done" /\ (didSet[p] \/ fault[p] # "none")

\* translate has just returned in thread p, to the wrapper or to
\* translate_text
Returned(p) == pc[p] = "cache" \/ (pc[p] = "done" /\ via[p] = "route")

\* the gloss field of a successful result
GlossOf(r) ==
    IF "isl_gloss" \in DOMAIN r THEN <<"isl_gloss", r.isl_gloss>>
    ELSE <<"asl_gloss", r.asl_gloss>>

\* C1: a get(text, language) that is the call right after
\* set(text, language, r), made less than TTL seconds after it, returns r.
C1_RoundTrip ==
    (last.op = "get" /\ last.prev # <<>> /\ last.at - last.prev[1].at < TTL)
        => last.ret = <<last.prev[1].result>>

\* C1 witness: a get one second before expiry returned the failed result
\* that the set just before it had stored
C1_Witness ==
    /\ last.op = "get"
    /\ last.prev # <<>>
    /\ last.at - last.prev[1].at = TTL - 1
    /\ last.ret = <<SampleResults[2]>>

\* C2: get returns a stored result only while the entry is younger than TTL
\* seconds, and returns None for an entry that is TTL seconds old or older.
C2_Expiry ==
    last.op = "get" =>
        LET k == get_cache_key(last.text, last.language) IN
        /\ last.ret # <<>> =>
              /\ k \in DOMAIN store
              /\ last.ret = <<store[k].result>>
              /\ last.at - store[k].timestamp < TTL
        /\ (k \in DOMAIN store /\ last.at - store[k].timestamp >= TTL) =>
              last.ret = <<>>

\* C2 witness: a get on an entry exactly TTL seconds old returned None
C2_Witness ==
    /\ last.op = "get"
    /\ get_cache_key(last.text, last.language) \in DOMAIN store
    /\ last.at - store[get_cache_key(last.text, last.language)].timestamp = TTL
    /\ last.ret = <<>>

\* C3: a wrapped translate call with an unrecognized language ends in the
\* validation error, with neither cache get nor cache set performed for it.
C3_RejectedBeforeAnyWork ==
    \A p \in Procs :
        (/\ via[p] = "wrapper"
         /\ pc[p] \in {"done", "raised"}
         /\ lower(language[p]) \notin {S_isl, S_asl})
            => (pc[p] = "raised" /\ ~didGet[p] /\ ~didSet[p])

\* C4: every entry a cache file holds has a successful result (a file that
\* set has opened and not yet written holds no entry); a call whose
\* pipeline failed returns the failed result and made no cache set; every
\* other finished call returns a successful result.
C4_OnlySuccessCached ==
    /\ \A k \in DOMAIN store :
          IsPickle(store[k]) => store[k].result.success = TRUE
    /\ \A p \in Procs :
          pc[p] = "done" =>
              IF fault[p] # "none"
              THEN result[p] = <<[success |-> FALSE, error |-> fault[p]]>> /\ ~didSet[p]
              ELSE result[p][1].success = TRUE

\* C4 witness: a call whose pipeline failed is finished while the store
\* holds an entry
C4_Witness ==
    \E p \in Procs : pc[p] = "done" /\ fault[p] # "none" /\ DOMAIN store # {}

\* C5: for a recognized language (isl or asl, in any case) translate never
\* raises: it returns success = false with the error of the step that
\* raised, and success = true when no step raised.
C5_NeverPropagates ==
    \A p \in Procs :
        (pc[p] \notin {"idle", "refused"} /\ lower(language[p]) \in {S_isl, S_asl}) =>
            /\ pc[p] # "raised"
            /\ Returned(p) =>
                  IF fault[p] = "none"
                  THEN result[p][1].success = TRUE
                  ELSE result[p] = <<[success |-> FALSE, error |-> fault[p]]>>

\* C5 witness: translate returned a failed result for language "ASL"
C5_Witness ==
    \E p \in Procs :
        pc[p] = "cache" /\ language[p] = S_ASL /\ fault[p] = "renderer"
        /\ result[p][1].success = FALSE

\* the category of a tag, by its prefix
Category(pos) ==
    IF startswith(pos, S_PRP) THEN "SUBJECT"
    ELSE IF startswith(pos, S_NN) THEN "OBJECT"
    ELSE IF startswith(pos, S_VB) THEN "VERB"
    ELSE "OTHER"

\* the upper-cased tokens of c_in of one category, in their input order
Group(cat) ==
    LET InCat(pair) == Category(pair[2]) = cat
        sel == SelectSeq(c_in, InCat)
    IN [i \in DOMAIN sel |-> upper(sel[i][1])]

\* the bag of the elements of a sequence
SeqBag(s) == [e \in Range(s) |-> Cardinality({i \in DOMAIN s : s[i] = e})]

\* C6: the output of convert_to_isl_structure is the SUBJECT tokens, then
\* the OBJECT, VERB and OTHER tokens, each group in input order, upper-cased,
\* and is a permutation of the upper-cased input tokens.
C6_StablePartition ==
    c_out # <<>> =>
        /\ c_out[1] = Group("SUBJECT") \o Group("OBJECT") \o Group("VERB") \o Group("OTHER")
        /\ Len(c_out[1]) = Len(c_in)
        /\ SeqBag(c_out[1]) = SeqBag([i \in DOMAIN c_in |-> upper(c_in[i][1])])

\* C6 witness: verb, object, subject in the input came out subject, object,
\* verb
C6_Witness ==
    /\ c_in = <<<<S_he, S_VBP>>, <<S_Tea, S_NNS>>, <<S_he, S_PRPS>>>>
    /\ c_out = <<<<upper(S_he), upper(S_Tea), upper(S_he)>>>>

\* C7 as claimed: once a cache file holds an entry, no step changes or
\* removes that entry.
C7_NeverMutated ==
    [][\A k \in DOMAIN store :
          IsPickle(store[k]) => (k \in DOMAIN store' /\ store'[k] = store[k])]_vars

\* C7 amended: no step removes a cache file, and a file changes only by
\* the cache set of a call for its key: set first empties the file, then
\* writes that call's result with the time read when set began; get
\* leaves the store as it is.
C7_OnlySetReplaces ==
    [][\A k \in DOMAIN store :
          /\ k \in DOMAIN store'
          /\ store'[k] # store[k] =>
                \E p \in Procs :
                    /\ KeyOf(p) = k
                    /\ didSet[p]
                    /\ \/ /\ pc[p] = "open" /\ pc'[p] = "dump"
                          /\ store'[k] = EmptyFile
                       \/ /\ pc[p] = "dump" /\ pc'[p] = "done"
                          /\ store'[k] = [result |-> result[p][1],
                                          timestamp |-> set_time[p]]]_vars

\* C7 witness: get loaded an entry, found it expired and returned None, the
\* wrapper went on to translate, and the entry is still in the store as it
\* was loaded
C7_Witness ==
    \E p \in Procs :
        /\ pc[p] \in {"isl", "asl"}
        /\ loaded[p] # <<>>
        /\ now - loaded[p][1].timestamp >= TTL
        /\ KeyOf(p) \in DOMAIN store
        /\ store[KeyOf(p)] = loaded[p][1]

\* two threads handle the same (text, language), both missed the cache and
\* both pipelines succeeded
BothComputed(p, q) ==
    /\ p # q
    /\ text[p] = text[q] /\ language[p] = language[q]
    /\ Computed(p) /\ Computed(q)
    /\ fault[p] = "none" /\ fault[q] = "none"

\* C8 as claimed: two concurrent calls for the same (text, language) that
\* both recompute get equal results.
C8_EqualResults ==
    \A p, q \in Procs : BothComputed(p, q) => result[p] = result[q]

\* C8 amended: the two results agree in success and gloss, and whichever
\* write landed last, the entry left for the key holds that gloss.
C8_EqualGloss ==
    \A p, q \in Procs :
        BothComputed(p, q) =>
            /\ result[p][1].success = result[q][1].success
            /\ GlossOf(result[p][1]) = GlossOf(result[q][1])
            /\ (pc[p] = "done" /\ pc[q] = "done") =>
                  /\ KeyOf(p) \in DOMAIN store
                  /\ IsPickle(store[KeyOf(p)])
                  /\ store[KeyOf(p)].result.success = TRUE
                  /\ GlossOf(store[KeyOf(p)].result) = GlossOf(result[p][1])

\* C8 witness: both calls have written, their results differ, and the
\* entry holds the result of t1 (whose write landed last)
C8_Witness ==
    /\ BothComputed("t1", "t2")
    /\ pc["t1"] = "done" /\ pc["t2"] = "done"
    /\ result["t1"] # result["t2"]
    /\ language["t1"] = S_ASL
    /\ store[KeyOf("t1")].result = result["t1"][1]

\* C9: the video_path of every successful translate is found by
\* serve_video right afterwards.
C9_AssetServed ==
    \A p \in Procs :
        ((Computed(p) \/ Returned(p)) /\ fault[p] = "none") =>
            serve_video_found(files, result[p][1].video_path) = {TRUE}

\* C10: a set for one (text, language) never changes what get returns for
\* a different (text, language).
C10_KeysIsolate ==
    [][(nops' = nops + 1 /\ last'.op = "set") =>
          \A txt \in CacheTexts, lang \in CacheLanguages :
              <<txt, lang>> # <<last'.text, last'.language>> =>
                  cache_get(store', now', txt, lang) = cache_get(store, now, txt, lang)]_vars

====
